---- MODULE Spec2Model ----
(***************************************************************************)
(* Model of the tokenring-ai/database package: the DatabaseService         *)
(* registries (activation variant and KeyedRegistry variant), the          *)
(* executeSql tools (flag-gated, confirmation-gated and single-resource    *)
(* variants), the showSchema and listDatabases tools of every generation,  *)
(* the memory and context listings, the connector calls the tools forward  *)
(* to, and the SqlIterableProvider generator.                              *)
(*                                                                         *)
(* JavaScript strings that the code inspects (sqlQuery) are sequences of   *)
(* one-character strings; names and connectors are TLA+ strings.           *)
(***************************************************************************)
EXTENDS Naturals, Sequences, FiniteSets, TLC

\* ------------------------------------------------------------------ bounds
\* Number of tool invocation slots.
MaxInv == 2
\* Longest argument list passed to enableResources(...names).
MaxEnable == 2
\* Most rows a query of the iterable provider returns.
MaxRows == 2

\* --------------------------------------------------------------- JS values
\* JavaScript `undefined` where a name, a connector or a registry entry is
\* expected.
Undefined == "undefined"
\* A missing sqlQuery argument (JavaScript `undefined`), kept in the shape
\* of a character sequence; no statement contains this pseudo character.
MissingSql == <<"undefined">>

\* The connectors the host constructs: c1 and c2 are instances of
\* subclasses that implement executeSql and showSchema, base is an instance
\* of a subclass that overrides neither.
Connectors == {"c1", "c2", "base"}
BaseConnectors == {"base"}
\* The allowWrites option each connector is constructed with.
AllowWritesOption ==
  [c \in Connectors |-> IF c = "c2" THEN "true" ELSE IF c = "base" THEN "false" ELSE Undefined]

\* Mutant: an absent option defaults to true.
DatabaseProviderConstructorDefaultTrue(option) ==
  [allowWrites |-> IF option = Undefined THEN TRUE ELSE option = "true"]

\* constructor({allowWrites}) { this.allowWrites = allowWrites ?? false; }
DatabaseProviderConstructor(option) ==
  [allowWrites |-> IF option = Undefined THEN FALSE ELSE option = "true"]

\* Names used as registry keys. "toString" is a property every JavaScript
\* object literal inherits from Object.prototype.
Names == {"db", "aux", "toString"}
ObjectPrototypeKeys == {"toString"}
\* The value read through an inherited key: a function, truthy, with no
\* allowWrites and no executeSql property.
InheritedMember == "Object.prototype.member"
\* Names the KeyedRegistry variant is driven with (KeyedRegistry is an
\* external class; only its documented register / getItemByName contract
\* is relied on).  registerDatabase has no test of the name, so the empty
\* string is a key like any other.
KeyedNames == (Names \ ObjectPrototypeKeys) \cup {""}
\* Arguments a caller may pass as databaseName.
NameArgs == Names \cup {"", Undefined}

\* ---------------------------------------------------------------- strings
\* The white space characters the statements of this model contain (trim
\* strips these among others).
WhiteSpace == {" ", "\t", "\n"}

RECURSIVE TrimStart(_)
TrimStart(s) ==
  IF s # <<>> /\ Head(s) \in WhiteSpace THEN TrimStart(Tail(s)) ELSE s

RECURSIVE TrimEnd(_)
TrimEnd(s) ==
  IF s # <<>> /\ s[Len(s)] \in WhiteSpace THEN TrimEnd(SubSeq(s, 1, Len(s) - 1)) ELSE s

\* String.prototype.trim
trim(s) == TrimEnd(TrimStart(s))

\* String.prototype.startsWith
startsWith(s, prefix) ==
  /\ Len(s) >= Len(prefix)
  /\ SubSeq(s, 1, Len(prefix)) = prefix

SELECT == <<"S", "E", "L", "E", "C", "T">>

\* Mutant: a statement that starts with WITH counts as a read too.
IsWriteUnlessSelectOrWith(sqlQuery) ==
  ~(\/ startsWith(trim(sqlQuery), SELECT)
    \/ startsWith(trim(sqlQuery), <<"W", "I", "T", "H">>))

\* The test both gated tools apply: !sqlQuery.trim().startsWith("SELECT")
IsWrite(sqlQuery) == ~startsWith(trim(sqlQuery), SELECT)

\* JavaScript falsiness of an optional string argument.
FalsyName(n) == n = "" \/ n = Undefined
\* Mutant: a statement of white space only is rejected as missing.
FalsySqlBlankToo(q) == trim(q) = <<>> \/ q = MissingSql
\* Mutant: only a missing sqlQuery is rejected, the empty string passes.
FalsySqlUndefinedOnly(q) == q = MissingSql
FalsySql(q) == q = <<>> \/ q = MissingSql

\* Statements callers pass as sqlQuery.
SqlSelect == <<"S", "E", "L", "E", "C", "T", " ", "1">>
SqlSelectPadded == <<" ", "\n", "S", "E", "L", "E", "C", "T", " ", "1", " ">>
SqlSelectLower == <<" ", " ", "s", "e", "l", "e", "c", "t", " ", "1">>
SqlSelectMixed == <<"S", "e", "l", "e", "c", "t", " ", "1">>
SqlUpdate == <<"U", "P", "D", "A", "T", "E", " ", "t", " ", "S", "E", "T", " ", "x", "=", "1">>
SqlDelete == <<"D", "E", "L", "E", "T", "E", " ", "F", "R", "O", "M", " ", "t">>
SqlDeletePadded == <<" ", "D", "E", "L", "E", "T", "E", " ", "F", "R", "O", "M", " ", "t", " ">>
SqlBlank == <<" ", " ">>
SqlSelectBatch ==
  <<"S", "E", "L", "E", "C", "T", " ", "1", ";", " ", "D", "R",
    "O", "P", " ", "T", "A", "B", "L", "E", " ", "t">>
SqlWith ==
  <<"W", "I", "T", "H", " ", "x", " ", "A", "S", " ", "(", "S",
    "E", "L", "E", "C", "T", " ", "1", ")", " ", "S", "E", "L",
    "E", "C", "T", " ", "*", " ", "F", "R", "O", "M", " ", "x">>
SqlSamples ==
  { <<>>, MissingSql, SqlSelect, SqlSelectPadded, SqlSelectLower, SqlSelectMixed,
    SqlUpdate, SqlDelete, SqlDeletePadded, SqlBlank }

\* ------------------------------------------------------------------ state
VARIABLES
  variant,          \* which generation of the package is deployed
  providers,        \* the fields of each constructed connector
  resources,        \* activation variant: DatabaseService.resources (own keys)
  activeResources,  \* activation variant: DatabaseService.activeResources
  databases,        \* KeyedRegistry variant: DatabaseService.databases
  firstResource,    \* single-resource variant: the configured DatabaseResource
  lastCall,         \* the most recent registry call and the error it threw
  lastRegistered,   \* history: connector given to the latest register call
  inv,              \* tool invocations
  gen               \* the generator made by SqlIterableProvider.generate

vars == <<variant, providers, resources, activeResources, databases, firstResource,
          lastCall, lastRegistered, inv, gen>>

\* databaseResource.allowWrites
allowWrites(c) == providers[c].allowWrites

\* "single" is the TypeScript single-resource generation whose tools throw,
\* "singleReturning" the TypeScript one whose tools return { error } (its
\* showSchema and listDatabases are in the sources, its executeSql is not),
\* "singleJs" the JavaScript one.
Variants == {"activation", "keyed", "single", "singleReturning", "singleJs"}
\* registry.resources.getFirstResourceByType may find no DatabaseResource.
SingleTsVariants == {"single", "singleReturning"}
SingleVariants == SingleTsVariants \cup {"singleJs"}
InvIds == 1..MaxInv

\* A registry call as its caller observes it: the operation, its name
\* arguments, the kind of error it threw ("none" when it returned), the name
\* the error message carries and the value returned.  replaced records that
\* a register call found another connector under the name.
NoCall ==
  [ op |-> "none", names |-> <<>>, error |-> "none", errorName |-> "",
    value |-> Undefined, replaced |-> FALSE ]
Returned(op, names, value) == [NoCall EXCEPT !.op = op, !.names = names, !.value = value]
Threw(op, names, kind, name) ==
  [NoCall EXCEPT !.op = op, !.names = names, !.error = kind, !.errorName = name]
NoRegistration == [n \in Names |-> Undefined]
\* An empty KeyedRegistry.
NoDatabases == [n \in KeyedNames |-> Undefined]
\* No register call has been made yet, under any name.
NoneRegistered == [n \in Names \cup KeyedNames |-> Undefined]

IdleInv ==
  [ pc |-> "idle", tool |-> "none", databaseName |-> Undefined, sqlQuery |-> MissingSql,
    resolved |-> Undefined, lookups |-> 0, classified |-> "none", confirms |-> 0,
    answer |-> "none", calls |-> <<>>, outcome |-> "none",
    settled |-> "none", how |-> "none", schemaCalls |-> <<>>,
    schemaArgs |-> <<>>, listCalls |-> <<>>,
    envelope |-> "none", listed |-> {}, yielded |-> 0, text |-> <<>>,
    activeThen |-> {} ]

\* A generator that has not been made yet.
IdleGen ==
  [ pc |-> "idle", dbPath |-> Undefined, readonly |-> FALSE, opens |-> 0, closes |-> 0,
    rows |-> <<>>, i |-> 0, items |-> <<>>, outcome |-> "none" ]

Init ==
  /\ variant \in Variants
  /\ providers = [c \in Connectors |-> DatabaseProviderConstructor(AllowWritesOption[c])]
  /\ resources = NoRegistration
  /\ activeResources = {}
  /\ databases = NoDatabases
  /\ firstResource \in (IF variant \in SingleTsVariants THEN Connectors \cup {Undefined}
                        ELSE IF variant = "singleJs" THEN Connectors
                        ELSE {Undefined})
  /\ lastCall = NoCall
  /\ lastRegistered = NoneRegistered
  /\ inv = [i \in InvIds |-> IdleInv]
  /\ gen = IdleGen

\* ------------------------------------------- DatabaseService (activation)
\* this.resources[name]: an own key, else a key inherited from
\* Object.prototype, else undefined.
ResourcesGet(name) ==
  IF resources[name] # Undefined THEN resources[name]
  ELSE IF name \in ObjectPrototypeKeys THEN InheritedMember
  ELSE Undefined

\* Mutant: a name that is already registered keeps its first connector.
registerResourceKeepFirst(name, resource) ==
  /\ variant = "activation"
  /\ resources' = IF resources[name] = Undefined
                  THEN [resources EXCEPT ![name] = resource] ELSE resources
  /\ lastRegistered' = [lastRegistered EXCEPT ![name] = resource]
  /\ UNCHANGED <<gen, variant, providers, activeResources, databases, firstResource, inv>>

\* Mutant: registering a name again takes it out of the active set.
registerResourceDeactivating(name, resource) ==
  /\ variant = "activation"
  /\ resources' = [resources EXCEPT ![name] = resource]
  /\ activeResources' = activeResources \ {name}
  /\ lastRegistered' = [lastRegistered EXCEPT ![name] = resource]
  /\ UNCHANGED <<gen, variant, providers, databases, firstResource, inv>>

registerResource(name, resource) ==
  /\ variant = "activation"
  /\ resources' = [resources EXCEPT ![name] = resource]
  /\ lastRegistered' = [lastRegistered EXCEPT ![name] = resource]
  /\ UNCHANGED <<gen, variant, providers, activeResources, databases, firstResource, inv>>

\* Index of the first name the loop of enableResources throws at
\* (Len(names) + 1 when it throws at none).
RECURSIVE FirstUnknown(_, _)
FirstUnknown(names, k) ==
  IF k > Len(names) THEN k
  ELSE IF ResourcesGet(names[k]) = Undefined THEN k
  ELSE FirstUnknown(names, k + 1)

\* What the caller of enableResources(...names) observes.
enableResourcesOutcome(names) ==
  LET stop == FirstUnknown(names, 1) IN
  IF stop > Len(names) THEN Returned("enable", names, Undefined)
  ELSE Threw("enable", names, "UnknownResource", names[stop])

\* Mutant: the names given replace the active set.
enableResourcesReplacing(names) ==
  LET stop == FirstUnknown(names, 1) IN
  /\ variant = "activation"
  /\ activeResources' = {names[k] : k \in 1..(stop - 1)}
  /\ UNCHANGED <<gen, variant, providers, resources, databases, firstResource, lastRegistered, inv>>

enableResources(names) ==
  LET stop == FirstUnknown(names, 1) IN
  /\ variant = "activation"
  /\ activeResources' = activeResources \cup {names[k] : k \in 1..(stop - 1)}
  /\ UNCHANGED <<gen, variant, providers, resources, databases, firstResource, lastRegistered, inv>>

\* Mutant: the lookup tests registration instead of activation.
getResourceByNameIfRegistered(name) ==
  IF ResourcesGet(name) = Undefined
  THEN Threw("lookup", <<name>>, "NotEnabled", name)
  ELSE Returned("lookup", <<name>>, ResourcesGet(name))

\* getResourceByName: the value returned, or the error thrown
\* (`Resource ${name} not enabled`).
getResourceByName(name) ==
  IF name \notin activeResources
  THEN Threw("lookup", <<name>>, "NotEnabled", name)
  ELSE Returned("lookup", <<name>>, ResourcesGet(name))

getActiveResourceNames == activeResources

\* ---------------------------------------- DatabaseService (KeyedRegistry)
registerDatabase(name, provider) ==
  /\ variant = "keyed"
  /\ databases' = [databases EXCEPT ![name] = provider]
  /\ lastRegistered' = [lastRegistered EXCEPT ![name] = provider]
  /\ UNCHANGED <<gen, variant, providers, resources, activeResources, firstResource, inv>>

\* getItemByName: undefined for a name the registry does not hold.
getDatabaseByName(name) == IF name \in DOMAIN databases THEN databases[name] ELSE Undefined

\* Mutant: the lookup result is handed on without the not-found check.
ResolveDatabaseUnchecked(name) ==
  Returned("lookup", <<name>>, getDatabaseByName(name))

\* The lookup of the confirmation-gated tool: getDatabaseByName, then
\* `Database ${databaseName} not found` for a falsy result.
ResolveDatabase(name) ==
  LET databaseResource == getDatabaseByName(name) IN
  IF databaseResource = Undefined THEN Threw("lookup", <<name>>, "NotFound", name)
  ELSE Returned("lookup", <<name>>, databaseResource)

\* The caller's view of a register call: it returns nothing and throws
\* nothing; replaced tells whether another connector sat under the name.
RegisterOutcome(name, connector, previous) ==
  [Returned("register", <<name>>, Undefined) EXCEPT
     !.replaced = previous \notin {Undefined, connector}]

EnableArgs == UNION {[1..k -> Names] : k \in 0..MaxEnable}

\* ------------------------------------------------------------ connectors
\* The ways a connector call settles, as the tools see them.
ConnectorResults == {"result", "DriverError", "NotImplemented"}

\* Mutant: the base class method returns without doing anything.
MethodOutcomesBaseNoOp(c) ==
  IF c \in BaseConnectors THEN {"result"} ELSE {"result", "DriverError"}

\* How a call of executeSql, showSchema or listDatabases on connector c can settle: the
\* base class methods throw `Method '...' must be implemented.`, an
\* overriding method resolves with a value or rejects with a driver error.
MethodOutcomes(c) ==
  IF c \in BaseConnectors THEN {"NotImplemented"} ELSE {"result", "DriverError"}

\* Mutant: the statement is trimmed before it is handed to the connector.
CallExecuteSqlTrimmed(r, sqlQuery) ==
  IF r.resolved \in Connectors
  THEN [r EXCEPT !.pc = "awaitConnector",
                 !.calls = Append(@, [connector |-> r.resolved, arg |-> trim(sqlQuery)])]
  ELSE [r EXCEPT !.pc = "done", !.outcome = "TypeError", !.how = "threw"]

\* databaseResource.executeSql(sqlQuery): the call is recorded with the
\* receiver and the argument text.  A receiver that is not a connector
\* has no executeSql property and the call throws a TypeError.
CallExecuteSql(r, sqlQuery) ==
  IF r.resolved \in Connectors
  THEN [r EXCEPT !.pc = "awaitConnector",
                 !.calls = Append(@, [connector |-> r.resolved, arg |-> sqlQuery])]
  ELSE [r EXCEPT !.pc = "done", !.outcome = "TypeError", !.how = "threw"]

\* throw new Error(...): the invocation ends and its caller sees an error.
Fail(r, kind) == [r EXCEPT !.pc = "done", !.outcome = kind, !.how = "threw"]

\* return { error: ... }: the invocation ends with an ordinary return value
\* that describes the error.
ReturnError(r, kind) == [r EXCEPT !.pc = "done", !.outcome = kind, !.how = "returned"]

NewInv(tool, databaseName, sqlQuery) ==
  [IdleInv EXCEPT !.tool = tool, !.databaseName = databaseName, !.sqlQuery = sqlQuery]

Startable(i) == inv[i].pc \in {"idle", "done"}

\* --------------------------------------------- tools/executeSql (flag gate)
\* How the gate classified the statement, as seen on the invocation.
Classify(sqlQuery) == IF IsWrite(sqlQuery) THEN "write" ELSE "read"

\* Mutant: the flag is checked for every statement, reads included.
FlagGateBlocksAnyStatement(resource, sqlQuery) ==
  ~(resource \in Connectors /\ allowWrites(resource))

\* if (!sqlQuery.trim().startsWith("SELECT")) { if (!databaseResource.allowWrites) throw }
\* An inherited member has no allowWrites property, so the flag reads falsy.
FlagGateBlocks(resource, sqlQuery) ==
  /\ IsWrite(sqlQuery)
  /\ ~(resource \in Connectors /\ allowWrites(resource))

ExecuteSqlFlagStep(databaseName, sqlQuery) ==
  LET r0 == NewInv("executeSql", databaseName, sqlQuery) IN
  IF FalsyName(databaseName) THEN Fail(r0, "InvalidArgument")
  ELSE IF FalsySql(sqlQuery) THEN Fail(r0, "InvalidArgument")
  ELSE
    LET got == getResourceByName(databaseName)
        r1 == [r0 EXCEPT !.lookups = 1, !.resolved = got.value]
        r2 == [r1 EXCEPT !.classified = Classify(sqlQuery)]
    IN IF got.error # "none" THEN Fail(r1, got.error)
       ELSE IF FlagGateBlocks(r1.resolved, sqlQuery) THEN Fail(r2, "WriteNotPermitted")
       ELSE CallExecuteSql(r2, sqlQuery)

ExecuteSqlFlag(i, databaseName, sqlQuery) ==
  /\ variant = "activation"
  /\ Startable(i)
  /\ inv' = [inv EXCEPT ![i] = ExecuteSqlFlagStep(databaseName, sqlQuery)]
  /\ UNCHANGED <<gen, variant, providers, resources, activeResources, databases, firstResource,
                 lastCall, lastRegistered>>

\* ------------------------------------- tools/executeSql (confirmation gate)
\* if (!sqlQuery.trim().startsWith("SELECT")) { approved = await agent.askForConfirmation(...) }
ConfirmGateAsks(resource, sqlQuery) == IsWrite(sqlQuery)

ExecuteSqlConfirmStep(databaseName, sqlQuery) ==
  LET r0 == NewInv("executeSql", databaseName, sqlQuery) IN
  IF FalsyName(databaseName) THEN Fail(r0, "InvalidArgument")
  ELSE IF FalsySql(sqlQuery) THEN Fail(r0, "InvalidArgument")
  ELSE
    LET got == ResolveDatabase(databaseName)
        r1 == [r0 EXCEPT !.lookups = 1, !.resolved = got.value]
    IN IF got.error # "none" THEN Fail(r1, got.error)
       ELSE IF ConfirmGateAsks(r1.resolved, sqlQuery)
            THEN [r1 EXCEPT !.classified = Classify(sqlQuery),
                            !.pc = "awaitConfirm", !.confirms = @ + 1]
       ELSE CallExecuteSql([r1 EXCEPT !.classified = Classify(sqlQuery)], sqlQuery)

\* Mutant: a new call gives up on a confirmation that is still pending in
\* its slot and ends it as rejected.
ExecuteSqlConfirmWithTimeout(i, databaseName, sqlQuery) ==
  /\ variant = "keyed"
  /\ Startable(i) \/ inv[i].pc = "awaitConfirm"
  /\ inv' = [inv EXCEPT ![i] =
               IF inv[i].pc = "awaitConfirm" THEN Fail(@, "UserRejected")
               ELSE ExecuteSqlConfirmStep(databaseName, sqlQuery)]
  /\ UNCHANGED <<gen, variant, providers, resources, activeResources, databases, firstResource,
                 lastCall, lastRegistered>>

ExecuteSqlConfirm(i, databaseName, sqlQuery) ==
  /\ variant = "keyed"
  /\ Startable(i)
  /\ inv' = [inv EXCEPT ![i] = ExecuteSqlConfirmStep(databaseName, sqlQuery)]
  /\ UNCHANGED <<gen, variant, providers, resources, activeResources, databases, firstResource,
                 lastCall, lastRegistered>>

\* Mutant: one answer settles every confirmation that is pending.
ConfirmationAnsweredShared(i, approved) ==
  /\ inv[i].pc = "awaitConfirm"
  /\ inv' = [j \in InvIds |->
               IF inv[j].pc # "awaitConfirm" THEN inv[j]
               ELSE IF ~approved
               THEN Fail([inv[j] EXCEPT !.answer = "rejected"], "UserRejected")
               ELSE CallExecuteSql([inv[j] EXCEPT !.answer = "approved"], inv[j].sqlQuery)]
  /\ UNCHANGED <<gen, variant, providers, resources, activeResources, databases, firstResource,
                 lastCall, lastRegistered>>

\* Mutant: the connector is looked up again once the answer has arrived.
ConfirmationAnsweredReResolving(i, approved) ==
  /\ inv[i].pc = "awaitConfirm"
  /\ inv' = [inv EXCEPT ![i] =
               IF ~approved THEN Fail([@ EXCEPT !.answer = "rejected"], "UserRejected")
               ELSE CallExecuteSql([@ EXCEPT !.answer = "approved",
                                             !.resolved = getDatabaseByName(inv[i].databaseName)],
                                   inv[i].sqlQuery)]
  /\ UNCHANGED <<gen, variant, providers, resources, activeResources, databases, firstResource,
                 lastCall, lastRegistered>>

\* agent.askForConfirmation resolves; the tool continues after the await.
ConfirmationAnswered(i, approved) ==
  /\ inv[i].pc = "awaitConfirm"
  /\ inv' = [inv EXCEPT ![i] =
               IF ~approved THEN Fail([@ EXCEPT !.answer = "rejected"], "UserRejected")
               ELSE CallExecuteSql([@ EXCEPT !.answer = "approved"], @.sqlQuery)]
  /\ UNCHANGED <<gen, variant, providers, resources, activeResources, databases, firstResource,
                 lastCall, lastRegistered>>

\* ---------------------------------- tools/executeSql (single resource)
ExecuteSqlSingleStep(databaseName, sqlQuery) ==
  LET r0 == NewInv("executeSql", databaseName, sqlQuery)
      r1 == [r0 EXCEPT !.lookups = 1, !.resolved = firstResource]
  IN IF r1.resolved = Undefined THEN Fail(r1, "ConfigurationError")
     ELSE IF FalsySql(sqlQuery) THEN Fail(r1, "InvalidArgument")
     ELSE CallExecuteSql(r1, sqlQuery)

ExecuteSqlSingle(i, databaseName, sqlQuery) ==
  /\ variant = "single"
  /\ Startable(i)
  /\ inv' = [inv EXCEPT ![i] = ExecuteSqlSingleStep(databaseName, sqlQuery)]
  /\ UNCHANGED <<gen, variant, providers, resources, activeResources, databases, firstResource,
                 lastCall, lastRegistered>>

\* ------------------------- tools/executeSql.js (single resource, legacy)
\* The resource comes from registry.requireFirstServiceByType; the variant
\* is deployed with a DatabaseResource configured.
ExecuteSqlSingleJsStep(databaseName, sqlQuery) ==
  LET r0 == NewInv("executeSql", databaseName, sqlQuery)
      r1 == [r0 EXCEPT !.lookups = 1, !.resolved = firstResource]
  IN IF FalsySql(sqlQuery) THEN ReturnError(r1, "InvalidArgument")
     ELSE CallExecuteSql(r1, sqlQuery)

ExecuteSqlSingleJs(i, databaseName, sqlQuery) ==
  /\ variant = "singleJs"
  /\ Startable(i)
  /\ inv' = [inv EXCEPT ![i] = ExecuteSqlSingleJsStep(databaseName, sqlQuery)]
  /\ UNCHANGED <<gen, variant, providers, resources, activeResources, databases, firstResource,
                 lastCall, lastRegistered>>

\* Mutant: a rejected executeSql is tried a second time.
ExecuteSqlSettlesRetryOnce(i, res) ==
  /\ inv[i].pc = "awaitConnector"
  /\ res \in MethodOutcomes(inv[i].resolved)
  /\ inv' = [inv EXCEPT ![i] =
               IF res # "result" /\ Len(@.calls) < 2
               THEN [@ EXCEPT !.calls = Append(@, [connector |-> inv[i].resolved,
                                                   arg |-> inv[i].sqlQuery])]
               ELSE [@ EXCEPT !.pc = "done", !.settled = res, !.outcome = res,
                              !.how = IF res = "result" THEN "returned" ELSE "threw"]]
  /\ UNCHANGED <<gen, variant, providers, resources, activeResources, databases, firstResource,
                 lastCall, lastRegistered>>

\* The promise returned by the connector's executeSql settles.  The gated
\* tools hand it back as is; the single-resource TypeScript tool catches a
\* rejection and throws a new Error around its message; the JavaScript tool
\* catches it and returns { error: ... }.
ExecuteSqlSettles(i, res) ==
  /\ inv[i].pc = "awaitConnector"
  /\ res \in MethodOutcomes(inv[i].resolved)
  /\ inv' = [inv EXCEPT ![i] =
               [@ EXCEPT !.pc = "done",
                         !.settled = res,
                         !.how = IF res = "result" \/ variant = "singleJs"
                                 THEN "returned" ELSE "threw",
                         !.outcome = IF variant \in {"single", "singleJs"} /\ res # "result"
                                     THEN "FailedToExecute" ELSE res]]
  /\ UNCHANGED <<gen, variant, providers, resources, activeResources, databases, firstResource,
                 lastCall, lastRegistered>>

\* ------------------------------------------------------- tools/showSchema
\* databaseResource.showSchema(): the call is recorded with its receiver
\* and its (empty) argument list.  A receiver that is not a connector has no
\* showSchema property and the call throws a TypeError.
CallShowSchema(r) ==
  IF r.resolved \in Connectors
  THEN [r EXCEPT !.pc = "awaitSchema", !.schemaCalls = Append(@, r.resolved),
                 !.schemaArgs = Append(@, <<>>)]
  ELSE [r EXCEPT !.pc = "done", !.outcome = "TypeError", !.how = "threw"]

\* resource.showSchema(databaseName) of the single-resource tools: the
\* receiver is the configured resource, the name is handed on as argument.
CallShowSchemaNamed(r, databaseName) ==
  [r EXCEPT !.pc = "awaitSchema", !.schemaCalls = Append(@, r.resolved),
            !.schemaArgs = Append(@, <<databaseName>>)]

\* Activation variant: the name is validated, then getResourceByName.
ShowSchemaStep(databaseName) ==
  LET r0 == NewInv("showSchema", databaseName, MissingSql) IN
  IF FalsyName(databaseName) THEN Fail(r0, "InvalidArgument")
  ELSE
    LET got == getResourceByName(databaseName)
        r1 == [r0 EXCEPT !.lookups = 1, !.resolved = got.value]
    IN IF got.error # "none" THEN Fail(r1, got.error) ELSE CallShowSchema(r1)

\* Mutant: looking a name up for showSchema also activates it.
ShowSchemaActivating(i, databaseName) ==
  /\ variant = "activation"
  /\ Startable(i)
  /\ inv' = [inv EXCEPT ![i] = ShowSchemaStep(databaseName)]
  /\ activeResources' = activeResources \cup ({databaseName} \cap Names)
  /\ UNCHANGED <<gen, variant, providers, resources, databases, firstResource,
                 lastCall, lastRegistered>>

ShowSchema(i, databaseName) ==
  /\ variant = "activation"
  /\ Startable(i)
  /\ inv' = [inv EXCEPT ![i] = ShowSchemaStep(databaseName)]
  /\ UNCHANGED <<gen, variant, providers, resources, activeResources, databases, firstResource,
                 lastCall, lastRegistered>>

\* KeyedRegistry variant: getDatabaseByName and the not-found check; the
\* tool has no test of the name itself.
ShowSchemaKeyedStep(databaseName) ==
  LET r0 == NewInv("showSchema", databaseName, MissingSql)
      got == ResolveDatabase(databaseName)
      r1 == [r0 EXCEPT !.lookups = 1, !.resolved = got.value]
  IN IF got.error # "none" THEN Fail(r1, got.error) ELSE CallShowSchema(r1)

ShowSchemaKeyed(i, databaseName) ==
  /\ variant = "keyed"
  /\ Startable(i)
  /\ inv' = [inv EXCEPT ![i] = ShowSchemaKeyedStep(databaseName)]
  /\ UNCHANGED <<gen, variant, providers, resources, activeResources, databases, firstResource,
                 lastCall, lastRegistered>>

\* Single resource, TypeScript, throwing: the resource is looked for first,
\* then the name is tested.
ShowSchemaSingleStep(databaseName) ==
  LET r0 == NewInv("showSchema", databaseName, MissingSql)
      r1 == [r0 EXCEPT !.lookups = 1, !.resolved = firstResource]
  IN IF r1.resolved = Undefined THEN Fail(r1, "ConfigurationError")
     ELSE IF FalsyName(databaseName) THEN Fail(r1, "InvalidArgument")
     ELSE CallShowSchemaNamed(r1, databaseName)

ShowSchemaSingle(i, databaseName) ==
  /\ variant = "single"
  /\ Startable(i)
  /\ inv' = [inv EXCEPT ![i] = ShowSchemaSingleStep(databaseName)]
  /\ UNCHANGED <<gen, variant, providers, resources, activeResources, databases, firstResource,
                 lastCall, lastRegistered>>

\* Single resource, TypeScript, returning: the same tests, each failure is
\* the return value { error: ... }.
ShowSchemaSingleReturningStep(databaseName) ==
  LET r0 == NewInv("showSchema", databaseName, MissingSql)
      r1 == [r0 EXCEPT !.lookups = 1, !.resolved = firstResource]
  IN IF r1.resolved = Undefined THEN ReturnError(r1, "ConfigurationError")
     ELSE IF FalsyName(databaseName) THEN ReturnError(r1, "InvalidArgument")
     ELSE CallShowSchemaNamed(r1, databaseName)

ShowSchemaSingleReturning(i, databaseName) ==
  /\ variant = "singleReturning"
  /\ Startable(i)
  /\ inv' = [inv EXCEPT ![i] = ShowSchemaSingleReturningStep(databaseName)]
  /\ UNCHANGED <<gen, variant, providers, resources, activeResources, databases, firstResource,
                 lastCall, lastRegistered>>

\* Single resource, JavaScript: the resource comes from
\* registry.requireFirstServiceByType; a falsy name is returned as { error }.
ShowSchemaSingleJsStep(databaseName) ==
  LET r0 == NewInv("showSchema", databaseName, MissingSql)
      r1 == [r0 EXCEPT !.lookups = 1, !.resolved = firstResource]
  IN IF FalsyName(databaseName) THEN ReturnError(r1, "InvalidArgument")
     ELSE CallShowSchemaNamed(r1, databaseName)

ShowSchemaSingleJs(i, databaseName) ==
  /\ variant = "singleJs"
  /\ Startable(i)
  /\ inv' = [inv EXCEPT ![i] = ShowSchemaSingleJsStep(databaseName)]
  /\ UNCHANGED <<gen, variant, providers, resources, activeResources, databases, firstResource,
                 lastCall, lastRegistered>>

\* The promise returned by the connector's showSchema settles.  The
\* activation tool returns it as is; the KeyedRegistry tool awaits it and
\* returns { type: 'json', data: value }.  The single-resource tools await
\* it inside try/catch: the value is returned; a rejection becomes a new
\* Error "Failed to show schema via resource: ..." that the throwing
\* generation throws and the other two return as { error: ... }.
ShowSchemaSettles(i, res) ==
  /\ inv[i].pc = "awaitSchema"
  /\ res \in MethodOutcomes(inv[i].resolved)
  /\ inv' = [inv EXCEPT ![i] =
               [@ EXCEPT !.pc = "done",
                         !.settled = res,
                         !.how = IF res = "result" \/ variant \in {"singleReturning", "singleJs"}
                                 THEN "returned" ELSE "threw",
                         !.envelope = IF res = "result" /\ variant = "keyed"
                                      THEN "json" ELSE "none",
                         !.outcome = IF variant \in SingleVariants /\ res # "result"
                                     THEN "FailedToShowSchema" ELSE res]]
  /\ UNCHANGED <<gen, variant, providers, resources, activeResources, databases, firstResource,
                 lastCall, lastRegistered>>

\* ---------------------------------------------------------------- listings
\* The orders in which a collection of names can be enumerated.  Set and
\* object keys are enumerated in insertion order, which the state does not
\* record, so every order is a possible one.
Orderings(S) ==
  {o \in [1..Cardinality(S) -> S] :
     \A a, b \in 1..Cardinality(S) : a # b => o[a] # o[b]}

\* Array.prototype.join, the joined string as a sequence of pieces.
RECURSIVE join(_, _)
join(array, separator) ==
  IF array = <<>> THEN <<>>
  ELSE IF Len(array) = 1 THEN <<array[1]>>
  ELSE <<array[1], separator>> \o join(Tail(array), separator)

\* joinDefault(separator, iterable, default) of @tokenring-ai/utility: the
\* default text for an empty iterable, the joined items otherwise.
joinDefault(separator, iterable, default) ==
  IF iterable = <<>> THEN <<default>> ELSE join(iterable, separator)

\* available.map((name) => `- ${name}`).join("\n")
RECURSIVE DashLines(_)
DashLines(available) ==
  IF available = <<>> THEN <<>>
  ELSE <<"- ", Head(available)>>
       \o (IF Len(available) = 1 THEN <<>> ELSE <<"\n">> \o DashLines(Tail(available)))

\* Object.keys(this.resources)
getAvailableResources == {n \in Names : resources[n] # Undefined}
\* this.databases.getAllItemNames()
getAvailableDatabases == {n \in KeyedNames : databases[n] # Undefined}

ListDatabasesPrefix == "Available databases: "
NoDatabasesAvailable == "No databases available."
MemoriesHeader == "These are the databases available for the database tools:\n"
ContextHeader == "/* These are the databases available for the database tool */:\n"

Listing(tool, names, yielded, text) ==
  [NewInv(tool, Undefined, MissingSql) EXCEPT
     !.pc = "done", !.outcome = "listing", !.how = "returned",
     !.listed = names, !.yielded = yielded, !.text = text,
     !.activeThen = activeResources]

\* tools/listDatabases: the prefix and the active names joined by ", ".
ListDatabases(i, order) ==
  /\ variant = "activation"
  /\ Startable(i)
  /\ order \in Orderings(getActiveResourceNames)
  /\ inv' = [inv EXCEPT ![i] =
               Listing("listDatabases", getActiveResourceNames, 1,
                       <<ListDatabasesPrefix>> \o join(order, ", "))]
  /\ UNCHANGED <<gen, variant, providers, resources, activeResources, databases, firstResource,
                 lastCall, lastRegistered>>

\* tools/listDatabases, later generation: joinDefault supplies a text for
\* the empty set.
ListDatabasesJoinDefault(i, order) ==
  /\ variant = "activation"
  /\ Startable(i)
  /\ order \in Orderings(getActiveResourceNames)
  /\ inv' = [inv EXCEPT ![i] =
               Listing("listDatabases", getActiveResourceNames, 1,
                       <<ListDatabasesPrefix>> \o joinDefault(", ", order, NoDatabasesAvailable))]
  /\ UNCHANGED <<gen, variant, providers, resources, activeResources, databases, firstResource,
                 lastCall, lastRegistered>>

\* resource.listDatabases() of the single-resource tools: the call is
\* recorded with its receiver, the configured resource.
CallListDatabases(r) ==
  [r EXCEPT !.pc = "awaitList", !.listCalls = Append(@, r.resolved)]

\* tools/listDatabases, single resource, TypeScript, throwing.
ListDatabasesSingleStep ==
  LET r0 == NewInv("listDatabases", Undefined, MissingSql)
      r1 == [r0 EXCEPT !.lookups = 1, !.resolved = firstResource]
  IN IF r1.resolved = Undefined THEN Fail(r1, "ConfigurationError")
     ELSE CallListDatabases(r1)

ListDatabasesSingle(i) ==
  /\ variant = "single"
  /\ Startable(i)
  /\ inv' = [inv EXCEPT ![i] = ListDatabasesSingleStep]
  /\ UNCHANGED <<gen, variant, providers, resources, activeResources, databases, firstResource,
                 lastCall, lastRegistered>>

\* tools/listDatabases, single resource, TypeScript, returning { error }.
ListDatabasesSingleReturningStep ==
  LET r0 == NewInv("listDatabases", Undefined, MissingSql)
      r1 == [r0 EXCEPT !.lookups = 1, !.resolved = firstResource]
  IN IF r1.resolved = Undefined THEN ReturnError(r1, "ConfigurationError")
     ELSE CallListDatabases(r1)

ListDatabasesSingleReturning(i) ==
  /\ variant = "singleReturning"
  /\ Startable(i)
  /\ inv' = [inv EXCEPT ![i] = ListDatabasesSingleReturningStep]
  /\ UNCHANGED <<gen, variant, providers, resources, activeResources, databases, firstResource,
                 lastCall, lastRegistered>>

\* tools/listDatabases.js, single resource, JavaScript.
ListDatabasesSingleJsStep ==
  LET r0 == NewInv("listDatabases", Undefined, MissingSql)
      r1 == [r0 EXCEPT !.lookups = 1, !.resolved = firstResource]
  IN CallListDatabases(r1)

ListDatabasesSingleJs(i) ==
  /\ variant = "singleJs"
  /\ Startable(i)
  /\ inv' = [inv EXCEPT ![i] = ListDatabasesSingleJsStep]
  /\ UNCHANGED <<gen, variant, providers, resources, activeResources, databases, firstResource,
                 lastCall, lastRegistered>>

\* The promise returned by the connector's listDatabases settles: the array
\* is returned as it is; a rejection (the base class method throws) becomes
\* a new Error "Failed to list databases via resource: ..." that the
\* throwing generation throws and the other two return as { error: ... }.
ListDatabasesSettles(i, res) ==
  /\ inv[i].pc = "awaitList"
  /\ res \in MethodOutcomes(inv[i].resolved)
  /\ inv' = [inv EXCEPT ![i] =
               [@ EXCEPT !.pc = "done",
                         !.settled = res,
                         !.how = IF res = "result" \/ variant \in {"singleReturning", "singleJs"}
                                 THEN "returned" ELSE "threw",
                         !.outcome = IF res = "result" THEN "result" ELSE "FailedToList"]]
  /\ UNCHANGED <<gen, variant, providers, resources, activeResources, databases, firstResource,
                 lastCall, lastRegistered>>

\* DatabaseService.getMemories: one item, the header and the keys of
\* this.resources joined by ", ".
getMemories(i, order) ==
  /\ variant = "activation"
  /\ Startable(i)
  /\ order \in Orderings(getAvailableResources)
  /\ inv' = [inv EXCEPT ![i] =
               Listing("getMemories", getAvailableResources, 1,
                       <<MemoriesHeader>> \o join(order, ", "))]
  /\ UNCHANGED <<gen, variant, providers, resources, activeResources, databases, firstResource,
                 lastCall, lastRegistered>>

\* Mutant: the item is yielded for an empty registry too.
getContextItemsYieldAlways(available) ==
  [yielded |-> 1, text |-> <<ContextHeader>> \o DashLines(available)]

\* if (available.length === 0) return; yield { ..., content: header + lines }
getContextItemsYield(available) ==
  IF Len(available) = 0 THEN [yielded |-> 0, text |-> <<>>]
  ELSE [yielded |-> 1, text |-> <<ContextHeader>> \o DashLines(available)]

\* getContextItems: nothing for an empty registry, else one item with the
\* header and one "- name" line per name.
getContextItems(i, available) ==
  /\ variant = "keyed"
  /\ Startable(i)
  /\ available \in Orderings(getAvailableDatabases)
  /\ inv' = [inv EXCEPT ![i] =
               Listing("getContextItems", getAvailableDatabases,
                       getContextItemsYield(available).yielded,
                       getContextItemsYield(available).text)]
  /\ UNCHANGED <<gen, variant, providers, resources, activeResources, databases, firstResource,
                 lastCall, lastRegistered>>

\* ------------------------------------------------------------------- Next
\* Invocation slots driven with the full argument sets.
FocusIds == {1}

\* The tools at work on a registry that the host keeps configuring.
Next ==
  \/ \E n \in Names, c \in Connectors : registerResource(n, c) /\ UNCHANGED lastCall
  \/ \E names \in EnableArgs : enableResources(names) /\ UNCHANGED lastCall
  \/ \E n \in KeyedNames, c \in Connectors : registerDatabase(n, c) /\ UNCHANGED lastCall
  \/ \E i \in FocusIds, n \in NameArgs, q \in SqlSamples : ExecuteSqlFlag(i, n, q)
  \/ \E i \in FocusIds, n \in NameArgs \ ObjectPrototypeKeys, q \in SqlSamples :
        ExecuteSqlConfirm(i, n, q)
  \/ \E i \in FocusIds, n \in NameArgs, q \in SqlSamples : ExecuteSqlSingle(i, n, q)
  \/ \E i \in FocusIds, n \in NameArgs, q \in SqlSamples : ExecuteSqlSingleJs(i, n, q)
  \/ \E i \in FocusIds, n \in NameArgs : ShowSchema(i, n)
  \/ \E i \in FocusIds, n \in KeyedNames \cup {Undefined} : ShowSchemaKeyed(i, n)
  \/ \E i \in FocusIds, n \in NameArgs : ShowSchemaSingle(i, n)
  \/ \E i \in FocusIds, n \in NameArgs : ShowSchemaSingleReturning(i, n)
  \/ \E i \in FocusIds, n \in NameArgs : ShowSchemaSingleJs(i, n)
  \/ \E i \in InvIds, res \in ConnectorResults : ShowSchemaSettles(i, res)
  \/ \E i \in FocusIds : ListDatabasesSingle(i)
  \/ \E i \in FocusIds : ListDatabasesSingleReturning(i)
  \/ \E i \in FocusIds : ListDatabasesSingleJs(i)
  \/ \E i \in InvIds, res \in ConnectorResults : ListDatabasesSettles(i, res)
  \/ \E i \in FocusIds, order \in Orderings(getActiveResourceNames) : ListDatabases(i, order)
  \/ \E i \in FocusIds, order \in Orderings(getActiveResourceNames) :
        ListDatabasesJoinDefault(i, order)
  \/ \E i \in FocusIds, order \in Orderings(getAvailableResources) : getMemories(i, order)
  \/ \E i \in FocusIds, available \in Orderings(getAvailableDatabases) :
        getContextItems(i, available)
  \/ \E i \in InvIds, approved \in BOOLEAN : ConfirmationAnswered(i, approved)
  \/ \E i \in InvIds, res \in ConnectorResults : ExecuteSqlSettles(i, res)

Spec == Init /\ [][Next]_vars

\* The registry alone, each call observed by its caller.
LookupResource(name) ==
  /\ variant = "activation"
  /\ lastCall' = getResourceByName(name)
  /\ UNCHANGED <<gen, variant, providers, resources, activeResources, databases, firstResource,
                 lastRegistered, inv>>

LookupDatabase(name) ==
  /\ variant = "keyed"
  /\ lastCall' = ResolveDatabase(name)
  /\ UNCHANGED <<gen, variant, providers, resources, activeResources, databases, firstResource,
                 lastRegistered, inv>>

InitRegistry == Init /\ variant \in {"activation", "keyed"}

NextRegistry ==
  \/ \E n \in Names, c \in Connectors :
        registerResource(n, c) /\ lastCall' = RegisterOutcome(n, c, resources[n])
  \/ \E names \in EnableArgs :
        enableResources(names) /\ lastCall' = enableResourcesOutcome(names)
  \/ \E n \in KeyedNames, c \in Connectors :
        registerDatabase(n, c) /\ lastCall' = RegisterOutcome(n, c, databases[n])
  \/ \E n \in Names : LookupResource(n)
  \/ \E n \in KeyedNames : LookupDatabase(n)

SpecRegistry == InitRegistry /\ [][NextRegistry]_vars

\* ----------------------------------------------------- SqlIterableProvider
\* Rows a query returns: one column each.  The last one comes from a query
\* such as SELECT 7 AS rowNumber.
RowSamples == {[id |-> 1], [id |-> 2], [rowNumber |-> 7]}
RowLists == UNION {[1..k -> RowSamples] : k \in 0..MaxRows}
DatabaseArgs == {Undefined, "", "app.db"}
\* What db.query(spec.query) and stmt.all() come to: an error thrown, or
\* the rows.
QueryResults ==
  {[threw |-> TRUE, rows |-> <<>>]} \cup {[threw |-> FALSE, rows |-> r] : r \in RowLists}

\* Number.prototype.toString for the values of the sample rows.
NumberToString(v) == IF v = 1 THEN "1" ELSE IF v = 2 THEN "2" ELSE "7"

\* JSON.stringify(row) of a one-column row, as a sequence of pieces.
Stringify(row) ==
  LET column == CHOOSE c \in DOMAIN row : TRUE IN
  <<"{\"", column, "\":", NumberToString(row[column]), "}">>

\* { row, rowNumber: i + 1, totalRows: rows.length, json, ...row }: the
\* columns of the row are spread last and replace a key of the same name.
Variables(rows, k) ==
  LET row == rows[k]
      own == [row |-> row, rowNumber |-> k, totalRows |-> Len(rows), json |-> Stringify(row)]
  IN [key \in DOMAIN own \cup DOMAIN row |->
        IF key \in DOMAIN row THEN row[key] ELSE own[key]]

\* The item yielded for rows[k] (k counts from one, as rowNumber does).
Item(rows, k) == [value |-> rows[k], variables |-> Variables(rows, k)]

\* spec.database || ':memory:'
DbPath(database) == IF database \in {Undefined, ""} THEN ":memory:" ELSE database

\* The first next() on a new generator: the database is opened read-only
\* (the constructor may throw, outside the try), the query runs (it may
\* throw, inside the try) and the body runs up to the first yield or to its
\* end, where finally closes the handle.
GenerateBegin(database, opened, result) ==
  /\ gen.pc \in {"idle", "done"}
  /\ LET g0 == [IdleGen EXCEPT !.dbPath = DbPath(database), !.readonly = TRUE] IN
     gen' = IF ~opened THEN [g0 EXCEPT !.pc = "done", !.outcome = "threw"]
            ELSE IF result.threw
            THEN [g0 EXCEPT !.pc = "done", !.opens = 1, !.closes = 1, !.outcome = "threw"]
            ELSE IF Len(result.rows) = 0
            THEN [g0 EXCEPT !.pc = "done", !.opens = 1, !.closes = 1, !.outcome = "returned"]
            ELSE [g0 EXCEPT !.pc = "suspended", !.opens = 1, !.rows = result.rows, !.i = 1,
                            !.items = <<Item(result.rows, 1)>>]
  /\ UNCHANGED <<variant, providers, resources, activeResources, databases, firstResource,
                 lastCall, lastRegistered, inv>>

\* A later next(): the loop goes on to the next row or ends, where finally
\* closes the handle.
GenerateNext ==
  /\ gen.pc = "suspended"
  /\ gen' = IF gen.i < Len(gen.rows)
            THEN [gen EXCEPT !.i = @ + 1, !.items = Append(@, Item(gen.rows, gen.i + 1))]
            ELSE [gen EXCEPT !.pc = "done", !.closes = @ + 1, !.outcome = "returned"]
  /\ UNCHANGED <<variant, providers, resources, activeResources, databases, firstResource,
                 lastCall, lastRegistered, inv>>

\* return() while suspended at the yield (the consumer leaves its loop
\* early): finally closes the handle.
GenerateReturn ==
  /\ gen.pc = "suspended"
  /\ gen' = [gen EXCEPT !.pc = "done", !.closes = @ + 1, !.outcome = "returnedEarly"]
  /\ UNCHANGED <<variant, providers, resources, activeResources, databases, firstResource,
                 lastCall, lastRegistered, inv>>

InitIterable == Init /\ variant = "keyed"

NextIterable ==
  \/ \E database \in DatabaseArgs, opened \in BOOLEAN, result \in QueryResults :
        GenerateBegin(database, opened, result)
  \/ GenerateNext
  \/ GenerateReturn

SpecIterable == InitIterable /\ [][NextIterable]_vars

\* The two gated tools on one name, with the statements that probe the
\* classification.
GateSql == {<<>>, SqlBlank, SqlSelect, SqlSelectBatch, SqlWith}

InitGate == Init /\ variant \in {"activation", "keyed"}

NextGate ==
  \/ \E c \in Connectors : registerResource("db", c) /\ UNCHANGED lastCall
  \/ enableResources(<<"db">>) /\ UNCHANGED lastCall
  \/ \E c \in Connectors : registerDatabase("db", c) /\ UNCHANGED lastCall
  \/ \E i \in FocusIds, q \in GateSql : ExecuteSqlFlag(i, "db", q)
  \/ \E i \in FocusIds, q \in GateSql : ExecuteSqlConfirm(i, "db", q)
  \/ \E i \in InvIds, approved \in BOOLEAN : ConfirmationAnswered(i, approved)
  \/ \E i \in InvIds, res \in ConnectorResults : ExecuteSqlSettles(i, res)

SpecGate == InitGate /\ [][NextGate]_vars

\* Several invocations of the confirmation-gated tool in flight at once, on
\* a registry the host keeps configuring: db is registered and replaced,
\* aux is registered once.
ConcurrentNames == {"db", "aux"}
ConcurrentConnectors == [n \in ConcurrentNames |-> IF n = "db" THEN {"c1", "c2"} ELSE {"c1"}]
ConcurrentSql == {SqlSelect, SqlDelete}

InitConcurrent == Init /\ variant = "keyed"

NextConcurrent ==
  \/ \E n \in ConcurrentNames : \E c \in ConcurrentConnectors[n] :
        registerDatabase(n, c) /\ UNCHANGED lastCall
  \/ \E i \in InvIds, n \in ConcurrentNames, q \in ConcurrentSql : ExecuteSqlConfirm(i, n, q)
  \/ \E i \in InvIds, approved \in BOOLEAN : ConfirmationAnswered(i, approved)
  \/ \E i \in InvIds, res \in ConnectorResults : ExecuteSqlSettles(i, res)

SpecConcurrent == InitConcurrent /\ [][NextConcurrent]_vars

\* Invocations on one name, with every confirmation eventually answered
\* and every connector call eventually settling.
NextLive ==
  \/ \E c \in ConcurrentConnectors["db"] : registerDatabase("db", c) /\ UNCHANGED lastCall
  \/ \E i \in InvIds, q \in ConcurrentSql : ExecuteSqlConfirm(i, "db", q)
  \/ \E i \in InvIds, approved \in BOOLEAN : ConfirmationAnswered(i, approved)
  \/ \E i \in InvIds, res \in ConnectorResults : ExecuteSqlSettles(i, res)

SpecLive ==
  /\ InitConcurrent
  /\ [][NextLive]_vars
  /\ \A i \in InvIds :
       /\ WF_vars(\E approved \in BOOLEAN : ConfirmationAnswered(i, approved))
       /\ WF_vars(\E res \in ConnectorResults : ExecuteSqlSettles(i, res))

\* ================================================================ claims
Lower == <<"a", "b", "c", "d", "e", "f", "g", "h", "i", "j", "k", "l", "m",
           "n", "o", "p", "q", "r", "s", "t", "u", "v", "w", "x", "y", "z">>
Upper == <<"A", "B", "C", "D", "E", "F", "G", "H", "I", "J", "K", "L", "M",
           "N", "O", "P", "Q", "R", "S", "T", "U", "V", "W", "X", "Y", "Z">>
UpperChar(ch) ==
  IF \E k \in 1..26 : Lower[k] = ch THEN Upper[CHOOSE k \in 1..26 : Lower[k] = ch] ELSE ch

RECURSIVE FirstToken(_)
FirstToken(s) ==
  IF s = <<>> \/ Head(s) \in WhiteSpace THEN <<>> ELSE <<Head(s)>> \o FirstToken(Tail(s))

\* The classification the specification describes: the first token of the
\* trimmed statement equals SELECT in any letter case.
LeadingTokenIsSelect(s) ==
  LET token == FirstToken(TrimStart(s)) IN
  [k \in 1..Len(token) |-> UpperChar(token[k])] = SELECT

MissingOrEmptyName(n) == n \in {"", Undefined}
MissingOrEmptySql(q) == q \in {<<>>, MissingSql}
Registered == {n \in DOMAIN lastRegistered : lastRegistered[n] # Undefined}
ExecuteSqlIds == {i \in InvIds : inv[i].tool = "executeSql"}

\* C1: a mutating statement against a resolved connector with
\* allowWrites=false never reaches the connector's executeSql, and the
\* invocation ends in the write-not-permitted error.
C1_WriteNotPermitted ==
  \A i \in ExecuteSqlIds :
    (/\ variant \in {"activation", "keyed"}
     /\ inv[i].classified = "write"
     /\ inv[i].resolved \in Connectors
     /\ ~allowWrites(inv[i].resolved))
    => /\ inv[i].calls = <<>>
       /\ inv[i].pc = "done" => inv[i].outcome = "WriteNotPermitted"

\* C2: with allowWrites=true and a confirmation channel, a mutating
\* statement is asked about once; a rejection ends the invocation with the
\* user-rejected error and no executeSql call, an approval leads to exactly
\* one executeSql call on the resolved connector with the caller's text.
C2_ConfirmationDecides ==
  \A i \in ExecuteSqlIds :
    (/\ variant = "keyed"
     /\ inv[i].classified = "write"
     /\ inv[i].resolved \in Connectors
     /\ allowWrites(inv[i].resolved))
    => /\ inv[i].confirms = 1
       /\ inv[i].answer = "none" => inv[i].pc = "awaitConfirm" /\ inv[i].calls = <<>>
       /\ inv[i].answer = "rejected" =>
            inv[i].pc = "done" /\ inv[i].outcome = "UserRejected" /\ inv[i].calls = <<>>
       /\ inv[i].answer = "approved" =>
            inv[i].calls = <<[connector |-> inv[i].resolved, arg |-> inv[i].sqlQuery]>>

C2_Witness ==
  \E i \in ExecuteSqlIds :
    /\ variant = "keyed"
    /\ inv[i].answer = "approved"
    /\ inv[i].resolved \in Connectors /\ allowWrites(inv[i].resolved)
    /\ inv[i].sqlQuery = SqlDeletePadded
    /\ Len(inv[i].calls) = 1

\* C3: a confirmation is requested only for a mutating statement whose
\* resolved connector has allowWrites=true.
C3_ConfirmOnlyWhenWritable ==
  \A i \in ExecuteSqlIds :
    inv[i].confirms > 0 =>
      /\ inv[i].classified = "write"
      /\ inv[i].resolved \in Connectors
      /\ allowWrites(inv[i].resolved)

\* C4: a statement is classified as read exactly when the first token of
\* the trimmed text is SELECT in any letter case.
C4_CaseInsensitive ==
  \A i \in ExecuteSqlIds :
    inv[i].classified # "none" =>
      (inv[i].classified = "read" <=> LeadingTokenIsSelect(inv[i].sqlQuery))

\* C5: a statement classified as read passes no gate: no confirmation, no
\* write-not-permitted or user-rejected error, and exactly one executeSql
\* call on the resolved connector, whatever its allowWrites.
C5_ReadsBypassGate ==
  \A i \in ExecuteSqlIds :
    (inv[i].classified = "read" /\ inv[i].resolved \in Connectors)
    => /\ inv[i].confirms = 0
       /\ inv[i].answer = "none"
       /\ inv[i].outcome \notin {"WriteNotPermitted", "UserRejected"}
       /\ inv[i].calls = <<[connector |-> inv[i].resolved, arg |-> inv[i].sqlQuery]>>

C5_Witness ==
  \E i \in ExecuteSqlIds :
    /\ variant = "activation"
    /\ inv[i].classified = "read"
    /\ inv[i].resolved \in Connectors /\ ~allowWrites(inv[i].resolved)
    /\ Len(inv[i].calls) = 1
    /\ inv[i].outcome = "result"

\* C6: a lookup of a usable name returns the connector of the most recent
\* register call for it, and a register call never throws.
C6_LastWriteWins ==
  /\ \A n \in Registered :
       /\ (variant = "activation" /\ n \in activeResources)
            => getResourceByName(n) = Returned("lookup", <<n>>, lastRegistered[n])
       /\ variant = "keyed"
            => ResolveDatabase(n) = Returned("lookup", <<n>>, lastRegistered[n])
  /\ lastCall.op = "register" => lastCall.error = "none"
  /\ (lastCall.op = "lookup" /\ lastCall.error = "none" /\ lastCall.names[1] \in Registered)
       => lastCall.value = lastRegistered[lastCall.names[1]]

C6_Witness ==
  /\ lastCall.op = "register"
  /\ lastCall.replaced
  /\ variant = "activation"
  /\ lastCall.names[1] \in activeResources
  /\ getResourceByName(lastCall.names[1]).value = lastRegistered[lastCall.names[1]]

\* C7: a lookup of a never-registered name throws NotFound, a lookup of a
\* registered but inactive name throws the different error NotEnabled.
C7_NotFoundDistinct ==
  lastCall.op = "lookup" =>
    LET n == lastCall.names[1] IN
    /\ n \notin Registered => lastCall.error = "NotFound"
    /\ (variant = "activation" /\ n \in Registered /\ n \notin activeResources)
         => lastCall.error = "NotEnabled"

\* C8: in the activation variant a registered name that is not enabled
\* cannot be looked up (NotEnabled, no connector); once enableResources has
\* returned, each registered name it was given resolves to its connector.
C8_EnableMakesUsable ==
  variant = "activation" =>
    /\ \A n \in Registered \ activeResources :
         getResourceByName(n) = Threw("lookup", <<n>>, "NotEnabled", n)
    /\ (lastCall.op = "lookup" /\ lastCall.names[1] \in Registered \ activeResources)
         => lastCall.error = "NotEnabled" /\ lastCall.value = Undefined
    /\ (lastCall.op = "enable" /\ lastCall.error = "none")
         => \A k \in 1..Len(lastCall.names) :
              lastCall.names[k] \in Registered
                => getResourceByName(lastCall.names[k])
                     = Returned("lookup", <<lastCall.names[k]>>, lastRegistered[lastCall.names[k]])

C8_Witness ==
  /\ variant = "activation"
  /\ lastCall.op = "enable" /\ lastCall.error = "none"
  /\ Len(lastCall.names) > 0
  /\ lastCall.names[1] \in Registered
  /\ getResourceByName(lastCall.names[1]).value = lastRegistered[lastCall.names[1]]

\* C9: every active name is a registered name, and enableResources throws
\* the unknown-resource error when given a name that was never registered.
C9_ActiveSubsetRegistered ==
  /\ activeResources \subseteq Registered
  /\ (lastCall.op = "enable" /\ \E k \in 1..Len(lastCall.names) : lastCall.names[k] \notin Registered)
       => lastCall.error = "UnknownResource"

\* C10 (as claimed): every executeSql tool rejects a missing or empty
\* databaseName or sqlQuery with the invalid-argument error before any
\* lookup, confirmation request or connector call.
C10_ValidatesFirst ==
  \A i \in ExecuteSqlIds :
    (MissingOrEmptyName(inv[i].databaseName) \/ MissingOrEmptySql(inv[i].sqlQuery))
    => /\ inv[i].pc = "done" /\ inv[i].outcome = "InvalidArgument"
       /\ inv[i].lookups = 0 /\ inv[i].confirms = 0 /\ inv[i].calls = <<>>

\* C10 (amended): the registry-backed executeSql tools reject a missing or
\* empty databaseName or sqlQuery with the invalid-argument error before any
\* lookup, confirmation request or connector call; the single-resource tool
\* fetches its resource first and requires only sqlQuery, which it rejects
\* before any connector call.
C10_ValidatesFirstRegistryBacked ==
  \A i \in ExecuteSqlIds :
    /\ (/\ variant \in {"activation", "keyed"}
        /\ MissingOrEmptyName(inv[i].databaseName) \/ MissingOrEmptySql(inv[i].sqlQuery))
       => /\ inv[i].pc = "done" /\ inv[i].outcome = "InvalidArgument"
          /\ inv[i].lookups = 0 /\ inv[i].confirms = 0 /\ inv[i].calls = <<>>
    /\ (variant = "single" /\ MissingOrEmptySql(inv[i].sqlQuery))
       => /\ inv[i].pc = "done"
          /\ inv[i].outcome \in {"InvalidArgument", "ConfigurationError"}
          /\ inv[i].outcome = "InvalidArgument" <=> inv[i].resolved \in Connectors
          /\ inv[i].calls = <<>>

C10_Witness ==
  \E i \in ExecuteSqlIds :
    /\ variant = "activation"
    /\ inv[i].databaseName \in Names \ activeResources
    /\ inv[i].sqlQuery = <<>>
    /\ inv[i].outcome = "InvalidArgument"
    /\ inv[i].lookups = 0

\* C11: resolution comes before classification and authorization: an
\* executeSql invocation whose name does not resolve ends with the
\* registry's not-found / not-enabled error, whatever the statement, and in
\* it nothing was classified, no confirmation was requested and no
\* connector was called.
C11_ResolutionFirst ==
  \A i \in ExecuteSqlIds :
    (/\ variant \in {"activation", "keyed"}
     /\ inv[i].lookups = 1
     /\ inv[i].resolved = Undefined)
    => /\ inv[i].pc = "done" /\ inv[i].how = "threw"
       /\ inv[i].outcome = (IF variant = "keyed" THEN "NotFound" ELSE "NotEnabled")
       /\ inv[i].classified = "none"
       /\ inv[i].confirms = 0 /\ inv[i].answer = "none"
       /\ inv[i].calls = <<>>

C11_Witness ==
  \E i \in ExecuteSqlIds :
    /\ variant = "keyed"
    /\ inv[i].databaseName \in KeyedNames
    /\ databases[inv[i].databaseName] = Undefined
    /\ IsWrite(inv[i].sqlQuery) /\ ~MissingOrEmptySql(inv[i].sqlQuery)
    /\ inv[i].lookups = 1
    /\ inv[i].outcome = "NotFound"
    /\ inv[i].confirms = 0 /\ inv[i].calls = <<>>

\* C12: once the gate has let a statement through and the connector's
\* executeSql has settled, the caller of the tool observes exactly that
\* settlement: the same result returned, or the same error thrown, neither
\* wrapped nor re-labelled.
C12_ConnectorOutcomeVerbatim ==
  \A i \in ExecuteSqlIds :
    (inv[i].pc = "done" /\ inv[i].settled # "none")
    => /\ inv[i].outcome = inv[i].settled
       /\ inv[i].how = (IF inv[i].settled = "result" THEN "returned" ELSE "threw")

SuccessOutcomes == {"result", "listing"}
ErrorOutcomes ==
  {"InvalidArgument", "NotEnabled", "NotFound", "WriteNotPermitted", "UserRejected",
   "TypeError", "ConfigurationError", "FailedToExecute", "FailedToShowSchema",
   "FailedToList", "DriverError", "NotImplemented"}
ShowSchemaIds == {i \in InvIds : inv[i].tool = "showSchema"}
ListingIds == {i \in InvIds : inv[i].tool \in {"listDatabases", "getMemories"}}
ContextIds == {i \in InvIds : inv[i].tool = "getContextItems"}
NamesIn(text) == {text[k] : k \in 1..Len(text)} \cap Names

\* C13: no failure is turned into a normal result: an invocation of any
\* tool in which validation, lookup, authorization or the connector call
\* failed ends by throwing one of the error kinds, and whatever an
\* invocation returns normally is a success value.
C13_NoFailureAsResult ==
  \A i \in InvIds :
    inv[i].pc = "done" =>
      /\ inv[i].outcome \in ErrorOutcomes => inv[i].how = "threw"
      /\ inv[i].settled \notin {"none", "result"} =>
           inv[i].how = "threw" /\ inv[i].outcome \in ErrorOutcomes
      /\ inv[i].how = "returned" => inv[i].outcome \in SuccessOutcomes

\* C14: a connector that overrides neither executeSql nor showSchema fails
\* with the not-implemented error each time either method is invoked, so
\* the tool that invoked it ends in an error and never in a result.
C14_BaseNotImplemented ==
  \A i \in InvIds :
    (/\ inv[i].resolved \in BaseConnectors
     /\ inv[i].calls # <<>> \/ inv[i].schemaCalls # <<>>)
    => /\ inv[i].pc \in {"awaitConnector", "awaitSchema", "done"}
       /\ inv[i].pc = "done" =>
            /\ inv[i].settled = "NotImplemented"
            /\ inv[i].outcome \in {"NotImplemented", "FailedToExecute", "FailedToShowSchema"}
            /\ variant \in {"activation", "keyed"} =>
                 inv[i].outcome = "NotImplemented" /\ inv[i].how = "threw"

C14_Witness ==
  \E i \in ShowSchemaIds :
    /\ variant = "keyed"
    /\ inv[i].resolved \in BaseConnectors
    /\ inv[i].schemaCalls = <<inv[i].resolved>>
    /\ inv[i].pc = "done"
    /\ inv[i].outcome = "NotImplemented"

\* C15: showSchema has no authorization gate, validates the name, resolves
\* the connector with the error kinds of executeSql and returns the value
\* of showSchema: it never classifies, never asks for confirmation and
\* never calls executeSql; a missing or empty name ends in the
\* invalid-argument error (in the single-resource tools a missing resource
\* is reported first) without a connector call; an unresolvable name ends
\* in the error kind executeSql gives in the same variant; a name that
\* resolves to a connector leads to exactly one showSchema call on it,
\* whatever its allowWrites, and when that call resolves the invocation
\* returns its value as it is, with nothing wrapped around it.
C15_SchemaUngated ==
  \A i \in ShowSchemaIds :
    /\ inv[i].classified = "none" /\ inv[i].confirms = 0 /\ inv[i].answer = "none"
    /\ inv[i].calls = <<>>
    /\ inv[i].outcome \notin {"WriteNotPermitted", "UserRejected"}
    /\ MissingOrEmptyName(inv[i].databaseName) =>
         /\ inv[i].pc = "done"
         /\ inv[i].outcome \in {"InvalidArgument", "ConfigurationError"}
         /\ inv[i].outcome = "ConfigurationError" =>
              variant \in SingleVariants /\ inv[i].resolved = Undefined
         /\ inv[i].schemaCalls = <<>>
    /\ (/\ ~MissingOrEmptyName(inv[i].databaseName)
        /\ inv[i].lookups = 1 /\ inv[i].resolved = Undefined) =>
         /\ inv[i].pc = "done"
         /\ inv[i].outcome = (IF variant = "keyed" THEN "NotFound"
                              ELSE IF variant = "activation" THEN "NotEnabled"
                              ELSE "ConfigurationError")
         /\ inv[i].schemaCalls = <<>>
    /\ inv[i].resolved \in Connectors /\ ~MissingOrEmptyName(inv[i].databaseName) =>
         /\ inv[i].schemaCalls = <<inv[i].resolved>>
         /\ inv[i].pc \in {"awaitSchema", "done"}
         /\ inv[i].pc = "done" =>
              /\ inv[i].settled \in ConnectorResults
              /\ inv[i].settled = "result" =>
                   /\ inv[i].outcome = "result" /\ inv[i].how = "returned"
                   /\ inv[i].envelope = "none"
              /\ inv[i].settled # "result" =>
                   inv[i].outcome \in {inv[i].settled, "FailedToShowSchema"}

\* C16: a listing never fails and is never empty: for an empty name list it
\* carries an explicit no-databases-available text, otherwise it contains
\* every listed name.
C16_ListingNeverEmpty ==
  \A i \in ListingIds :
    inv[i].pc = "done" =>
      /\ inv[i].how = "returned" /\ inv[i].outcome = "listing"
      /\ inv[i].text # <<>>
      /\ inv[i].listed = {} => \E k \in 1..Len(inv[i].text) : inv[i].text[k] = NoDatabasesAvailable
      /\ inv[i].listed \subseteq NamesIn(inv[i].text)

\* C17: the available-databases context handler yields no item when no
\* database is registered; otherwise it yields exactly one item whose
\* content is the header followed by one "- name" line per registered
\* name, each name exactly once.
C17_ContextItem ==
  \A i \in ContextIds :
    LET text == inv[i].text
        k == Cardinality(inv[i].listed)
    IN inv[i].pc = "done" =>
         /\ inv[i].listed \subseteq Registered
         /\ inv[i].listed = {} => inv[i].yielded = 0 /\ text = <<>>
         /\ inv[i].listed # {} =>
              /\ inv[i].yielded = 1
              /\ Len(text) = 3 * k
              /\ text[1] = ContextHeader
              /\ \A j \in 1..k :
                   /\ text[3 * j - 1] = "- "
                   /\ text[3 * j] \in inv[i].listed
                   /\ j < k => text[3 * j + 1] = "\n"
              /\ \A n \in inv[i].listed :
                   Cardinality({j \in 1..k : text[3 * j] = n}) = 1

C17_Witness ==
  \E i \in ContextIds :
    /\ inv[i].pc = "done"
    /\ Cardinality(inv[i].listed) = 2
    /\ inv[i].yielded = 1
    /\ Len(inv[i].text) = 6

\* C18: in the activation variant every listing names exactly the active
\* set: the names in the text of the list tool and of the memory export are
\* the names that were active when the listing was made.
C18_ListingsNameActiveSet ==
  \A i \in ListingIds :
    (variant = "activation" /\ inv[i].pc = "done")
    => NamesIn(inv[i].text) = inv[i].activeThen

\* C19: every error is terminal and nothing is retried: one invocation
\* makes at most one lookup, requests at most one confirmation and calls a
\* connector method at most once; an outcome ends the invocation; after a
\* validation, lookup or gate error no confirmation or connector call has
\* been made beyond the point of the error, and a connector error follows
\* exactly one call.
C19_ErrorsTerminal ==
  \A i \in InvIds :
    /\ inv[i].lookups <= 1 /\ inv[i].confirms <= 1
    /\ Len(inv[i].calls) + Len(inv[i].schemaCalls) + Len(inv[i].listCalls) <= 1
    /\ inv[i].outcome # "none" => inv[i].pc = "done"
    /\ inv[i].outcome \in {"InvalidArgument", "ConfigurationError"} =>
         /\ inv[i].confirms = 0 /\ inv[i].calls = <<>> /\ inv[i].schemaCalls = <<>>
         /\ inv[i].listCalls = <<>>
    /\ inv[i].outcome \in {"NotFound", "NotEnabled", "WriteNotPermitted"} =>
         /\ inv[i].lookups = 1 /\ inv[i].confirms = 0
         /\ inv[i].calls = <<>> /\ inv[i].schemaCalls = <<>>
    /\ inv[i].outcome = "UserRejected" =>
         inv[i].confirms = 1 /\ inv[i].calls = <<>> /\ inv[i].schemaCalls = <<>>
    /\ inv[i].settled \notin {"none", "result"} =>
         /\ inv[i].pc = "done"
         /\ Len(inv[i].calls) + Len(inv[i].schemaCalls) + Len(inv[i].listCalls) = 1

C19_Witness ==
  \E i \in ExecuteSqlIds :
    /\ variant = "keyed"
    /\ inv[i].answer = "approved"
    /\ inv[i].pc = "done"
    /\ inv[i].settled = "DriverError" /\ inv[i].outcome = "DriverError"
    /\ inv[i].lookups = 1 /\ inv[i].confirms = 1 /\ Len(inv[i].calls) = 1

\* C20: a connector's allowWrites is true exactly when true was given at
\* construction, false otherwise, and it has that value in every reachable
\* state: no registry call, tool invocation or listing changes it.
C20_AllowWritesImmutable ==
  \A c \in Connectors : allowWrites(c) = (AllowWritesOption[c] = "true")

C20_Witness ==
  \E i \in ExecuteSqlIds :
    /\ variant = "activation"
    /\ inv[i].pc = "done"
    /\ inv[i].outcome = "WriteNotPermitted"
    /\ inv[i].resolved \in Connectors
    /\ AllowWritesOption[inv[i].resolved] = Undefined
    /\ ~allowWrites(inv[i].resolved)
    /\ activeResources # {}

\* C21: tool invocations and listings leave the registry unchanged: a step
\* that starts, continues or ends an invocation changes no registration
\* and not the active set, whatever the invocation's outcome.
C21_RegistryFrame ==
  [][inv' # inv =>
       UNCHANGED <<resources, activeResources, databases, firstResource>>]_vars

C21_Witness ==
  \E i \in ShowSchemaIds :
    /\ variant = "activation"
    /\ inv[i].pc = "done"
    /\ inv[i].outcome = "DriverError"
    /\ inv[i].databaseName \in activeResources
    /\ resources[inv[i].databaseName] = inv[i].resolved
    /\ \E n \in Names : resources[n] # Undefined /\ n \notin activeResources

\* What one invocation of the confirmation-gated tool shows, as determined
\* by its own arguments, the connector it resolved and its own answer.
OwnOutcome(r) ==
  r.tool = "executeSql" =>
    /\ r.lookups = 1
    /\ r.resolved = Undefined =>
         r.pc = "done" /\ r.outcome = "NotFound" /\ r.confirms = 0 /\ r.calls = <<>>
    /\ (r.resolved \in Connectors /\ r.sqlQuery = SqlSelect) =>
         /\ r.confirms = 0 /\ r.answer = "none"
         /\ r.calls = <<[connector |-> r.resolved, arg |-> r.sqlQuery]>>
    /\ (r.resolved \in Connectors /\ r.sqlQuery = SqlDelete) =>
         /\ r.confirms = 1
         /\ r.answer = "none" => r.pc = "awaitConfirm" /\ r.calls = <<>>
         /\ r.answer = "rejected" =>
              r.pc = "done" /\ r.outcome = "UserRejected" /\ r.calls = <<>>
         /\ r.answer = "approved" =>
              r.calls = <<[connector |-> r.resolved, arg |-> r.sqlQuery]>>
    /\ r.calls # <<>> => r.pc \in {"awaitConnector", "done"}
    /\ (r.pc = "done" /\ r.calls # <<>>) => r.outcome = r.settled /\ r.settled # "none"

\* C22: concurrent invocations are independent: a step of one invocation
\* changes no other invocation; an invocation that starts resolves against
\* the registry as it is at that moment; and whatever the others do, each
\* invocation shows what its own arguments, its resolved connector and its
\* own confirmation answer determine, a mutating one having its own
\* confirmation request.
C22_Independent ==
  [][/\ \A i, j \in InvIds : (i # j /\ inv'[i] # inv[i]) => inv'[j] = inv[j]
     /\ \A i \in InvIds :
          (inv[i].pc \in {"idle", "done"} /\ inv'[i] # inv[i])
            => inv'[i].resolved = databases[inv'[i].databaseName]
     /\ \A i \in InvIds : OwnOutcome(inv'[i])]_vars

C22_Witness ==
  \E i, j \in ExecuteSqlIds :
    /\ i # j
    /\ inv[i].databaseName = inv[j].databaseName
    /\ inv[i].sqlQuery = SqlDelete /\ inv[j].sqlQuery = SqlDelete
    /\ inv[i].pc = "awaitConfirm" /\ inv[i].calls = <<>>
    /\ inv[j].answer = "approved" /\ inv[j].pc = "awaitConnector"

\* C23: the confirmation request is the only wait inside the tool and has
\* no timeout: while it is unanswered the invocation has called no
\* connector and has no outcome, and only an answer moves it on; every
\* invocation in flight reaches its end once its confirmation is answered
\* and its connector call settles.
C23_OnlyConfirmationWaits ==
  /\ [][\A i \in InvIds :
          /\ inv'[i].pc = "awaitConfirm" =>
               inv'[i].calls = <<>> /\ inv'[i].outcome = "none" /\ inv'[i].answer = "none"
          /\ (inv[i].pc = "awaitConfirm" /\ inv'[i] # inv[i]) =>
               inv'[i].answer \in {"approved", "rejected"}]_vars
  /\ \A i \in InvIds :
       (inv[i].pc \in {"awaitConfirm", "awaitConnector"}) ~> (inv[i].pc = "done")

C23_Witness ==
  \E i \in ExecuteSqlIds :
    /\ inv[i].pc = "done"
    /\ inv[i].answer = "approved"
    /\ inv[i].outcome = "result"
    /\ \E j \in ExecuteSqlIds : inv[j].pc = "awaitConfirm"

\* C28: an invocation executes on the connector it resolved at lookup
\* time: the connector is fixed when the invocation starts, stays the same
\* while the confirmation is pending whatever is registered meanwhile, and
\* an approved invocation calls executeSql on that connector.
C28_ResolvedAtLookup ==
  [][\A i \in InvIds :
       /\ (inv[i].pc \in {"idle", "done"} /\ inv'[i] # inv[i])
            => inv'[i].resolved = databases[inv'[i].databaseName]
       /\ inv[i].pc = "awaitConfirm" =>
            /\ inv'[i].resolved = inv[i].resolved
            /\ inv'[i].answer = "approved" =>
                 inv'[i].calls = <<[connector |-> inv[i].resolved, arg |-> inv[i].sqlQuery]>>
       /\ inv[i].pc = "awaitConnector" => inv'[i].calls = inv[i].calls]_vars

C28_Witness ==
  \E i, j \in ExecuteSqlIds :
    /\ i # j
    /\ inv[i].databaseName = inv[j].databaseName
    /\ inv[i].pc = "awaitConfirm"
    /\ inv[i].resolved \in Connectors
    /\ databases[inv[i].databaseName] \notin {Undefined, inv[i].resolved}
    /\ inv[j].answer = "approved"
    /\ inv[j].resolved = inv[i].resolved
    /\ inv[j].calls = <<[connector |-> inv[j].resolved, arg |-> inv[j].sqlQuery]>>

\* The statement, leading white space skipped, begins with the six
\* characters SELECT.
BeginsWithSelect(s) ==
  \E k \in 1..Len(s) :
    /\ \A m \in 1..(k - 1) : s[m] \in WhiteSpace
    /\ k + 5 <= Len(s)
    /\ \A m \in 1..6 : s[k + m - 1] = SELECT[m]

\* C24: classification looks only at the start of the trimmed statement: a
\* statement is a read exactly when it begins with SELECT; the batch
\* "SELECT 1; DROP TABLE t" is a read and reaches the connector with no
\* flag check and no confirmation; a statement beginning with WITH is
\* mutating and meets the gate.
C24_LexicalClassification ==
  \A i \in ExecuteSqlIds :
    (variant \in {"activation", "keyed"} /\ inv[i].resolved \in Connectors) =>
      /\ inv[i].classified = "read" <=> BeginsWithSelect(inv[i].sqlQuery)
      /\ inv[i].classified = "write" <=> ~BeginsWithSelect(inv[i].sqlQuery)
      /\ inv[i].sqlQuery = SqlSelectBatch =>
           /\ inv[i].classified = "read"
           /\ inv[i].confirms = 0
           /\ inv[i].outcome \notin {"WriteNotPermitted", "UserRejected"}
           /\ inv[i].calls = <<[connector |-> inv[i].resolved, arg |-> SqlSelectBatch]>>
      /\ inv[i].sqlQuery = SqlWith =>
           /\ inv[i].classified = "write"
           /\ (variant = "activation" /\ ~allowWrites(inv[i].resolved)) =>
                inv[i].outcome = "WriteNotPermitted" /\ inv[i].calls = <<>>
           /\ variant = "keyed" => inv[i].confirms = 1

C24_Witness ==
  \E i \in ExecuteSqlIds :
    /\ variant = "activation"
    /\ inv[i].sqlQuery = SqlSelectBatch
    /\ inv[i].resolved \in Connectors /\ ~allowWrites(inv[i].resolved)
    /\ Len(inv[i].calls) = 1
    /\ inv[i].outcome = "result"

\* C29: a statement of white space only passes the argument check, is
\* classified as mutating and meets the gate; when the gate lets it
\* through it reaches the connector untrimmed; only the empty string is
\* rejected as a missing sqlQuery.
C29_WhitespaceStatement ==
  \A i \in ExecuteSqlIds :
    (variant \in {"activation", "keyed"} /\ ~MissingOrEmptyName(inv[i].databaseName)) =>
      /\ inv[i].sqlQuery = <<>> =>
           inv[i].outcome = "InvalidArgument" /\ inv[i].lookups = 0 /\ inv[i].calls = <<>>
      /\ inv[i].sqlQuery = SqlBlank =>
           /\ inv[i].outcome # "InvalidArgument"
           /\ inv[i].lookups = 1
           /\ inv[i].resolved \in Connectors =>
                /\ inv[i].classified = "write"
                /\ variant = "activation" =>
                     IF allowWrites(inv[i].resolved)
                     THEN inv[i].calls = <<[connector |-> inv[i].resolved, arg |-> SqlBlank]>>
                     ELSE inv[i].outcome = "WriteNotPermitted" /\ inv[i].calls = <<>>
                /\ variant = "keyed" =>
                     /\ inv[i].confirms = 1
                     /\ inv[i].answer = "approved" =>
                          inv[i].calls = <<[connector |-> inv[i].resolved, arg |-> SqlBlank]>>
                     /\ inv[i].answer # "approved" => inv[i].calls = <<>>

C29_Witness ==
  \E i \in ExecuteSqlIds :
    /\ variant = "keyed"
    /\ inv[i].sqlQuery = SqlBlank
    /\ inv[i].answer = "approved"
    /\ inv[i].calls = <<[connector |-> inv[i].resolved, arg |-> SqlBlank]>>
    /\ inv[i].pc = "done"

\* C25: the registry only grows: no step removes a registration or an
\* active name, and a lookup that succeeds before a step succeeds after it.
C25_RegistryGrows ==
  [][/\ \A n \in Names : resources[n] # Undefined => resources'[n] # Undefined
     /\ \A n \in KeyedNames : databases[n] # Undefined => databases'[n] # Undefined
     /\ activeResources \subseteq activeResources'
     /\ \A n \in Names :
          (variant = "activation" /\ getResourceByName(n).error = "none")
            => (getResourceByName(n).error)' = "none"
     /\ \A n \in KeyedNames :
          (variant = "keyed" /\ ResolveDatabase(n).error = "none")
            => (ResolveDatabase(n).error)' = "none"]_vars

C25_Witness ==
  /\ variant = "activation"
  /\ lastCall.op = "enable" /\ lastCall.error = "none" /\ Len(lastCall.names) = 1
  /\ \E n \in activeResources \cap Registered :
       /\ n # lastCall.names[1]
       /\ getResourceByName(n).error = "none"

\* C26: enableResources is not atomic on failure: given a name that was
\* never registered it throws at the first such name; the names listed
\* before it have been added to the active set and no name listed at or
\* after it has.
C26_EnableStopsAtFirstUnregistered ==
  [][(/\ lastCall'.op = "enable"
      /\ \E k \in 1..Len(lastCall'.names) : lastCall'.names[k] \notin Registered)
     => LET names == lastCall'.names
            stop == CHOOSE k \in 1..Len(names) :
                      /\ names[k] \notin Registered
                      /\ \A m \in 1..(k - 1) : names[m] \in Registered
        IN /\ lastCall'.error = "UnknownResource"
           /\ lastCall'.errorName = names[stop]
           /\ activeResources' = activeResources \cup {names[m] : m \in 1..(stop - 1)}]_vars

\* C27: activation is attached to the name: registering an active name
\* again leaves it active, and the lookup then returns the connector just
\* registered, with that connector's allowWrites, without a new enable.
C27_ActivationByName ==
  [][\A n \in Names :
       (variant = "activation" /\ n \in activeResources /\ resources'[n] # resources[n])
       => /\ n \in activeResources'
          /\ (getResourceByName(n))' = Returned("lookup", <<n>>, lastRegistered'[n])
          /\ resources'[n] = lastRegistered'[n]
          /\ allowWrites(lastRegistered'[n]) = (AllowWritesOption[lastRegistered'[n]] = "true")]_vars

C27_Witness ==
  /\ variant = "activation"
  /\ lastCall.op = "register" /\ lastCall.replaced
  /\ lastCall.names[1] \in activeResources
  /\ lastRegistered[lastCall.names[1]] = "c2"
  /\ getResourceByName(lastCall.names[1]).value = "c2"
  /\ allowWrites("c2")

\* C30: generate opens the database read-only and closes the handle it
\* opened exactly once, after the last row, after a query error and after
\* an early return; the items are the rows in result order, with rowNumber
\* running from 1 to N and totalRows = N on every item.
C30_GenerateClosesAndCounts ==
  /\ gen.opens <= 1
  /\ gen.opens = 1 => gen.readonly
  /\ gen.pc = "suspended" => gen.opens = 1 /\ gen.closes = 0
  /\ gen.pc = "done" => gen.closes = gen.opens
  /\ \A k \in 1..Len(gen.items) :
       /\ gen.items[k].value = gen.rows[k]
       /\ gen.items[k].variables.rowNumber = k
       /\ gen.items[k].variables.totalRows = Len(gen.rows)
====
